---- MODULE Spec2Model ----
(***************************************************************************)
(* A model of gh2/csv.py: the field retrievers (field_to_callable,         *)
(* label_events_for), the date normalizer (normalize_sequential_dates)     *)
(* and the row writer (write_rows).                                        *)
(*                                                                         *)
(* Python values are records tagged with their type, so that None, dates,  *)
(* integers, text and dicts stay distinct.  A date is a day of January     *)
(* 2020; dates compare chronologically, that is by day.                    *)
(*                                                                         *)
(* The file runs under Python 2 and under Python 3 (it starts with         *)
(* "from __future__ import absolute_import").  The two differ in what      *)
(* filter() returns, so the interpreter is a variable, py3, chosen when    *)
(* the program starts.                                                     *)
(***************************************************************************)
EXTENDS Integers, Sequences, FiniteSets, TLC

VARIABLES
    py3,                \* TRUE: Python 3, FALSE: Python 2
    pc,                 \* position of the running scenario
    arg,                \* normalizer: the row as it was passed in
    issue_list,         \* normalizer: the row (an OrderedDict), mutated in place
    once,               \* normalizer: the row after the first application
    raised,             \* an exception left the function
    issue,              \* retriever: the issue it is called on
    field,              \* retriever: the field specifier
    retrieved,          \* retriever: the value it returned
    include_prs,        \* write_rows: --include-pull-requests
    skip_normalization, \* write_rows: --skip-date-normalization
    yielded,            \* write_rows: issues whose loop iteration ended
    aborted,            \* write_rows: the issue whose iteration raised, if any
    fd                  \* write_rows: the rows written to the file

vars == <<py3, pc, arg, issue_list, once, raised, issue, field, retrieved,
          include_prs, skip_normalization, yielded, aborted, fd>>

normVars == <<arg, issue_list, once>>
retrVars == <<issue, field, retrieved>>
writeVars == <<include_prs, skip_normalization, yielded, aborted, fd>>

-----------------------------------------------------------------------------
(* Bounds *)

\* Dates are 2020-01-05, 2020-01-10, ... : MaxDay of them, five days apart.
MaxDay == 4
\* The longest event history of an issue.
MaxEvents == 3
\* The most issues the repository yields in one run.
MaxIssues == 2

-----------------------------------------------------------------------------
(* Python values *)

None == [type |-> "NoneType"]
Date(d) == [type |-> "datetime", day |-> d]
PyInt(n) == [type |-> "int", n |-> n]
PyStr(s) == [type |-> "str", s |-> s]
PyBytes(s) == [type |-> "bytes", s |-> s]

Days == {5 * k : k \in 1..MaxDay}
Dates == {Date(d) : d \in Days}
DateOrNone == Dates \cup {None}

\* a > b on two dates
Later(a, b) == a.day > b.day

-----------------------------------------------------------------------------
(* Rows: collections.OrderedDict, a sequence of entries with distinct keys *)

Entry(k, v) == [k |-> k, v |-> v]

Keys(row) == [n \in 1..Len(row) |-> row[n].k]

HasKey(row, key) == \E n \in 1..Len(row) : row[n].k = key

IndexOf(row, key) == CHOOSE n \in 1..Len(row) : row[n].k = key

\* issue_list[key]
GetItem(row, key) == row[IndexOf(row, key)].v

\* issue_list[key] = value, for a key the row has: the position is kept
SetItem(row, key, value) ==
    [row EXCEPT ![IndexOf(row, key)] = Entry(key, value)]

-----------------------------------------------------------------------------
(* main: the columns *)

headers == <<"ID", "Link", "Name", "Backlog", "Approved", "Doing",
             "Needs Review", "Dev Done">>

fields == <<"number", "html_url", "title", "created_at",
            "label:status-approved:created_at",
            "label:status-doing:created_at",
            "label:status-needs-review:created_at",
            "closed_at">>

approved == fields[5]
doing == fields[6]
needs_review == fields[7]

-----------------------------------------------------------------------------
(* normalize_sequential_dates *)

start == "created_at"
finish == "closed_at"

\* The scan of the keys: from position n on, with date_fields so far.
RECURSIVE ScanFields(_, _, _)
ScanFields(keys, n, date_fields) ==
    IF n > Len(keys) THEN date_fields
    ELSE IF keys[n] = start
         THEN ScanFields(keys, n + 1, Append(date_fields, keys[n]))
    ELSE IF date_fields = <<>>
         THEN ScanFields(keys, n + 1, date_fields)
    ELSE IF keys[n] = finish
         THEN Append(date_fields, keys[n])
    ELSE ScanFields(keys, n + 1, Append(date_fields, keys[n]))

DateFields(row) == ScanFields(Keys(row), 1, <<>>)

\* Variant: the walk also leaves out the position before the last.
NumberOfDatesShort(date_fields) == Len(date_fields) - 2

\* number_of_dates = len(date_fields) - 1
NumberOfDates(date_fields) == Len(date_fields) - 1

\* filter(None, (issue_list[f] for f in date_fields[i + 1:])): the values that
\* are true, in order.  i counts from 0 as in the code.
FilteredDates(row, date_fields, i) ==
    LET rest == SubSeq(date_fields, i + 2, Len(date_fields))
        IsTrue(f) == GetItem(row, f) # None
        kept == SelectSeq(rest, IsTrue)
    IN [n \in 1..Len(kept) |-> GetItem(row, kept[n])]

\* "not filtered_dates": a Python 2 list is false when empty; a Python 3
\* filter object is always true.
NotFiltered(filtered_dates, interp3) ==
    IF interp3 THEN FALSE ELSE filtered_dates = <<>>

\* Variant: the next later date instead of the earliest.
FirstOf(dates) == dates[1]

\* Variant: max() instead of min().
LatestOf(dates) ==
    LET S == {dates[n] : n \in 1..Len(dates)}
    IN CHOOSE m \in S : \A x \in S : ~Later(x, m)

\* min(filtered_dates), of a non-empty sequence
MinOf(dates) ==
    LET S == {dates[n] : n \in 1..Len(dates)}
    IN CHOOSE m \in S : \A x \in S : ~Later(m, x)

\* Variant: the comparison turned round.
MustReplaceEarlier(date, next_earliest_date) ==
    date # None /\ Later(next_earliest_date, date)

\* date is not None and date > next_earliest_date
MustReplace(date, next_earliest_date) ==
    date # None /\ Later(date, next_earliest_date)

\* The while loop from position i (counted from 0), on the row as it is now.
\* min() of an empty Python 3 filter object raises ValueError.
RECURSIVE Walk(_, _, _, _)
Walk(row, date_fields, i, interp3) ==
    IF ~(i < NumberOfDates(date_fields))
    THEN [row |-> row, raised |-> FALSE]
    ELSE LET date == GetItem(row, date_fields[i + 1])
             filtered_dates == FilteredDates(row, date_fields, i)
         IN IF NotFiltered(filtered_dates, interp3)
            THEN [row |-> row, raised |-> FALSE]
            ELSE IF filtered_dates = <<>>
            THEN [row |-> row, raised |-> TRUE]
            ELSE LET next_earliest_date == MinOf(filtered_dates)
                 IN IF MustReplace(date, next_earliest_date)
                    THEN Walk(SetItem(row, date_fields[i + 1],
                                      next_earliest_date),
                              date_fields, i + 1, interp3)
                    ELSE Walk(row, date_fields, i + 1, interp3)

normalize_sequential_dates(row, interp3) ==
    Walk(row, DateFields(row), 0, interp3)

-----------------------------------------------------------------------------
(* The rows the normalizer is run on *)

Absent == [type |-> "absent"]

\* The entries of a column order whose value is not Absent.
RowOf(order, values) ==
    LET Present(n) == values[n] # Absent
        kept == SelectSeq([n \in 1..Len(order) |-> n], Present)
    IN [n \in 1..Len(kept) |-> Entry(order[kept[n]], values[kept[n]])]

\* main's columns as issue_to_dict fills them: a number, two encoded texts
\* and five dates, each date column there or not.
MainValues ==
    {<<PyInt(1), PyBytes("url"), PyBytes("title")>> \o v :
        v \in [1..5 -> DateOrNone \cup {Absent}]}
        \cup
    {<<Absent, Absent, Absent>> \o v :
        v \in [1..5 -> DateOrNone \cup {Absent}]}

\* Other orders of date columns: a column after closed_at, and closed_at
\* ahead of created_at.
TrailingOrder == <<"created_at", "label:status-approved:created_at",
                   "closed_at", "updated_at">>
SwappedOrder == <<"closed_at", "created_at",
                  "label:status-approved:created_at">>

Rows ==
    {RowOf(fields, v) : v \in MainValues}
        \cup
    {RowOf(TrailingOrder, v) : v \in [1..4 -> DateOrNone \cup {Absent}]}
        \cup
    {RowOf(SwappedOrder, v) : v \in [1..3 -> DateOrNone \cup {Absent}]}

-----------------------------------------------------------------------------
(* The normalizer applied to a row, and to its own result *)

NoIssue == [labels |-> {}, events |-> <<>>]

InitNorm ==
    /\ py3 \in BOOLEAN
    /\ pc = "start"
    /\ arg \in Rows
    /\ issue_list = arg
    /\ once = <<>>
    /\ raised = FALSE
    /\ issue = NoIssue /\ field = "" /\ retrieved = None
    /\ include_prs = FALSE /\ skip_normalization = FALSE
    /\ yielded = <<>> /\ aborted = <<>> /\ fd = <<>>

Normalize ==
    /\ pc = "start"
    /\ LET r == normalize_sequential_dates(issue_list, py3)
       IN /\ issue_list' = r.row
          /\ once' = r.row
          /\ raised' = r.raised
    /\ pc' = "once"
    /\ UNCHANGED <<py3, arg, retrVars, writeVars>>

NormalizeAgain ==
    /\ pc = "once"
    /\ ~raised
    /\ LET r == normalize_sequential_dates(issue_list, py3)
       IN /\ issue_list' = r.row
          /\ raised' = r.raised
    /\ pc' = "twice"
    /\ UNCHANGED <<py3, arg, once, retrVars, writeVars>>

NextNorm == Normalize \/ NormalizeAgain

SpecNorm == InitNorm /\ [][NextNorm]_vars

-----------------------------------------------------------------------------
(* Issues and their events, as github3 hands them over *)

PyDict(keys) == [type |-> "dict", keys |-> keys]

\* Python truth of a value: None, the empty text and the empty dict are false.
Truth(v) ==
    CASE v.type = "NoneType" -> FALSE
      [] v.type = "dict" -> v.keys # {}
      [] v.type \in {"str", "bytes"} -> v.s # ""
      [] OTHER -> TRUE

\* getattr(obj, name, None)
GetAttr(obj, name) == IF name \in DOMAIN obj THEN obj[name] ELSE None

\* d.get(key)
DictGet(d, key) == IF key \in DOMAIN d THEN d[key] ELSE None

LabelNames == {"status-approved", "status-doing"}
EventKinds == {"labeled", "unlabeled"}

\* The n-th event of a history; events come in time order.
EventAt(n, kind, name) ==
    [event |-> kind, label |-> [name |-> name], created_at |-> Date(5 * n)]

Histories ==
    UNION {
        {[n \in 1..len |-> EventAt(n, c[n][1], c[n][2])] :
            c \in [1..len -> EventKinds \X LabelNames]}
        : len \in 0..MaxEvents}

MakeIssue(number, closed_at, labels, events, raw) ==
    [number |-> PyInt(number), html_url |-> PyStr("url"),
     title |-> PyStr("title"), created_at |-> Date(10),
     closed_at |-> closed_at, labels |-> labels, events |-> events,
     as_dict |-> raw]

-----------------------------------------------------------------------------
(* label_events_for, field_to_callable, issue_to_dict *)

\* The (label name, event) pairs of the "labeled" events, in event order;
\* nothing when the issue has no labels now.
label_events_for(i) ==
    IF i.labels = {} THEN <<>>
    ELSE LET IsLabeled(e) == e.event = "labeled"
             kept == SelectSeq(i.events, IsLabeled)
         IN [n \in 1..Len(kept) |-> <<kept[n].label.name, kept[n]>>]

\* field.split(':'), on the specifiers in use
Split(f) ==
    CASE f = "label:status-approved:created_at"
            -> <<"label", "status-approved", "created_at">>
      [] f = "label:status-doing:created_at"
            -> <<"label", "status-doing", "created_at">>
      [] f = "label:status-needs-review:created_at"
            -> <<"label", "status-needs-review", "created_at">>
      [] OTHER -> <<f>>

\* Variant: the loop keeps going and returns the last match.
LastMatch(pairs, label_name, attribute) ==
    LET hits == {n \in 1..Len(pairs) : pairs[n][1] = label_name}
    IN IF hits = {} THEN None
       ELSE GetAttr(pairs[CHOOSE n \in hits : \A m \in hits : m <= n][2],
                    attribute)

\* The for loop of the composite retriever: the attribute of the first pair
\* whose label is label_name; falling off the end returns None.
RECURSIVE FirstMatch(_, _, _)
FirstMatch(pairs, label_name, attribute) ==
    IF pairs = <<>> THEN None
    ELSE IF label_name = Head(pairs)[1]
         THEN GetAttr(Head(pairs)[2], attribute)
         ELSE FirstMatch(Tail(pairs), label_name, attribute)

\* field_to_callable(field)(issue)
Retriever(f, i) ==
    LET attrs == Split(f)
    IN IF Len(attrs) > 1 /\ attrs[1] = "label"
       THEN FirstMatch(label_events_for(i), attrs[2], attrs[3])
       ELSE GetAttr(i, f)

\* attr.encode('utf-8') if hasattr(attr, 'encode') else attr
Encode(attr) == IF attr.type = "str" THEN PyBytes(attr.s) ELSE attr

issue_to_dict(fs, i) ==
    [n \in 1..Len(fs) |-> Entry(fs[n], Encode(Retriever(fs[n], i)))]

-----------------------------------------------------------------------------
(* A retriever applied to an issue *)

RetrieverIssues ==
    {MakeIssue(1, None, labels, events, <<>>) :
        labels \in SUBSET LabelNames, events \in Histories}

RetrieverFields == {fields[n] : n \in 1..Len(fields)} \cup {"updated_at"}

InitRetr ==
    /\ py3 \in BOOLEAN
    /\ pc = "start"
    /\ issue \in RetrieverIssues
    /\ field \in RetrieverFields
    /\ retrieved = None
    /\ arg = <<>> /\ issue_list = <<>> /\ once = <<>> /\ raised = FALSE
    /\ include_prs = FALSE /\ skip_normalization = FALSE
    /\ yielded = <<>> /\ aborted = <<>> /\ fd = <<>>

Resolve ==
    /\ pc = "start"
    /\ retrieved' = Retriever(field, issue)
    /\ pc' = "resolved"
    /\ UNCHANGED <<py3, raised, issue, field, normVars, writeVars>>

NextRetr == Resolve

SpecRetr == InitRetr /\ [][NextRetr]_vars

\* Positions of the "labeled" events of an issue that carry the label.
LabeledWith(i, name) ==
    {n \in 1..Len(i.events) :
        i.events[n].event = "labeled" /\ i.events[n].label.name = name}

\* The label a composite specifier of main names.
LabelOf(f) ==
    CASE f = approved -> "status-approved"
      [] f = doing -> "status-doing"
      [] f = needs_review -> "status-needs-review"

\* C9: for label:<name>:created_at the retriever returns the created_at of
\* the first "labeled" event, in event order, whose label is <name>; it
\* returns None when there is none, and whenever the issue has no labels now,
\* whatever its event history.
C9_FirstLabeledEvent ==
    (pc = "resolved" /\ field \in {approved, doing, needs_review}) =>
        LET hits == LabeledWith(issue, LabelOf(field))
        IN retrieved =
            IF issue.labels = {} \/ hits = {} THEN None
            ELSE issue.events[CHOOSE n \in hits : \A m \in hits : n <= m]
                    .created_at

\* Witness of C9: two "labeled" events carry the label, after an "unlabeled"
\* event that carries it too, and the first of the two was returned.
C9_Witness ==
    /\ pc = "resolved" /\ field = approved /\ issue.labels # {}
    /\ Cardinality(LabeledWith(issue, "status-approved")) >= 2
    /\ issue.events[1].event = "unlabeled"
    /\ issue.events[1].label.name = "status-approved"
    /\ retrieved # None

-----------------------------------------------------------------------------
(* format_dates, is_pull_request, write_rows *)

\* --date-format, at its default
date_format == "%m/%d/%Y"

\* attr.strftime(fmt): the text of a date in a format
Strftime(attr, fmt) == [type |-> "str", strftime |-> fmt, day |-> attr.day]

\* The values of a row, each date formatted.
format_dates(attributes, fmt) ==
    [n \in 1..Len(attributes) |->
        IF attributes[n].type = "datetime"
        THEN Strftime(attributes[n], fmt)
        ELSE attributes[n]]

\* issue_data.values()
RowValues(row) == [n \in 1..Len(row) |-> row[n].v]

\* Variant: "pr is not None" instead of the truth of pr.
IsPullRequestNotNone(i) ==
    LET pr == DictGet(i.as_dict, "pull_request")
    IN pr # None /\ pr.type = "dict"

\* pr and isinstance(pr, dict), as the condition of an if
is_pull_request(i) ==
    LET pr == DictGet(i.as_dict, "pull_request")
    IN Truth(pr) /\ pr.type = "dict"

\* What as_dict() can hold under "pull_request": no such key, null, an
\* empty mapping, a mapping with its url, or something that is no mapping.
RawDicts ==
    {[state |-> PyStr("open")]} \cup
    {[state |-> PyStr("open"), pull_request |-> pr] :
        pr \in {None, PyDict({}), PyDict({"url"}), PyStr("url")}}

\* The histories of the issues written: none, or the approved label set on
\* 2020-01-05, before the issue's created_at.
WrittenHistories ==
    {<<{}, <<>>>>,
     <<{"status-approved"}, <<EventAt(1, "labeled", "status-approved")>>>>}

\* The issues the repository can yield as its number-th issue.
IssuesNumbered(number) ==
    {MakeIssue(number, closed_at, h[1], h[2], raw) :
        closed_at \in {None, Date(20)}, h \in WrittenHistories,
        raw \in RawDicts}

InitWrite ==
    /\ py3 \in BOOLEAN
    /\ include_prs \in BOOLEAN
    /\ skip_normalization \in BOOLEAN
    /\ pc = "open"
    /\ yielded = <<>> /\ aborted = <<>> /\ fd = <<>>
    /\ raised = FALSE
    /\ arg = <<>> /\ issue_list = <<>> /\ once = <<>>
    /\ issue = NoIssue /\ field = "" /\ retrieved = None

\* open(filename, 'w'); writer.writerow(headers)
WriteHeader ==
    /\ pc = "open"
    /\ fd' = <<headers>>
    /\ pc' = "loop"
    /\ UNCHANGED <<py3, raised, include_prs, skip_normalization, yielded,
                   aborted, normVars, retrVars>>

\* One iteration of "for issue in issues" that skips a pull request.
SkipPullRequest(i) ==
    /\ ~include_prs /\ is_pull_request(i)
    /\ yielded' = Append(yielded, i)
    /\ UNCHANGED <<pc, fd, aborted, raised>>

\* One iteration that writes the row of the issue, or ends the run when the
\* normalizer raises.
WriteIssue(i) ==
    /\ ~(~include_prs /\ is_pull_request(i))
    /\ LET issue_data == issue_to_dict(fields, i)
           r == IF skip_normalization
                THEN [row |-> issue_data, raised |-> FALSE]
                ELSE normalize_sequential_dates(issue_data, py3)
       IN IF r.raised
          THEN /\ raised' = TRUE
               /\ aborted' = <<i>>
               /\ pc' = "raised"
               /\ UNCHANGED <<fd, yielded>>
          ELSE /\ fd' = Append(fd, format_dates(RowValues(r.row),
                                                date_format))
               /\ yielded' = Append(yielded, i)
               /\ UNCHANGED <<pc, aborted, raised>>

NextIssue ==
    /\ pc = "loop"
    /\ Len(yielded) < MaxIssues
    /\ \E i \in IssuesNumbered(Len(yielded) + 1) :
           SkipPullRequest(i) \/ WriteIssue(i)
    /\ UNCHANGED <<py3, include_prs, skip_normalization, normVars, retrVars>>

\* The issues are exhausted: the with block closes the file.
CloseFile ==
    /\ pc = "loop"
    /\ pc' = "closed"
    /\ UNCHANGED <<py3, raised, writeVars, normVars, retrVars>>

NextWrite == WriteHeader \/ NextIssue \/ CloseFile

SpecWrite == InitWrite /\ [][NextWrite]_vars

\* Issues whose pull_request is a mapping that is not null / not empty.
HasPullRequestMapping(i) ==
    /\ "pull_request" \in DOMAIN i.as_dict
    /\ i.as_dict.pull_request.type = "dict"

HasNonEmptyPullRequest(i) ==
    HasPullRequestMapping(i) /\ i.as_dict.pull_request.keys # {}

\* The file holds the header and then one row for each of the issues, in
\* order; a row is told by its first column, the issue's number.
FileHolds(issues) ==
    /\ Len(fd) = 1 + Len(issues)
    /\ fd[1] = headers
    /\ \A n \in 1..Len(issues) : fd[n + 1][1] = issues[n].number

\* C10 as stated: after the header, the file holds one row per included
\* issue, in the order yielded, where an issue with a non-null pull_request
\* mapping is included exactly when include-pull-requests is set.
C10_NonNullMappingFiltered ==
    pc \in {"loop", "closed"} =>
        LET Included(i) == include_prs \/ ~HasPullRequestMapping(i)
        IN FileHolds(SelectSeq(yielded, Included))

\* C10 as amended: after the header, the file holds one row per included
\* issue whose iteration ended, in the order yielded; an issue whose
\* pull_request is a non-empty mapping is included exactly when
\* include-pull-requests is set, every other issue always (an empty mapping
\* too); the issue on which the normalizer raised has no row.
C10_NonEmptyMappingFiltered ==
    pc # "open" =>
        LET Included(i) == include_prs \/ ~HasNonEmptyPullRequest(i)
        IN FileHolds(SelectSeq(yielded, Included))

\* Witness of C10: with include-pull-requests off, a pull request was
\* skipped and the issue after it written; the file is closed.
C10_Witness ==
    /\ pc = "closed" /\ ~include_prs /\ Len(yielded) = 2 /\ Len(fd) = 2
    /\ HasNonEmptyPullRequest(yielded[1])
    /\ HasPullRequestMapping(yielded[2])

-----------------------------------------------------------------------------
(* Properties of the normalizer *)

\* closed_at occurs in the row somewhere after created_at.
FinishFollowsStart(row) ==
    \E m, n \in 1..Len(row) : m < n /\ row[m].k = start /\ row[n].k = finish

\* Row positions from created_at to the closed_at that follows it.
SpanPositions(row) ==
    IF FinishFollowsStart(row)
    THEN IndexOf(row, start)..IndexOf(row, finish)
    ELSE {}

\* Dates in the span strictly after position n.
LaterDates(row, n) ==
    {row[m].v : m \in {q \in SpanPositions(row) : q > n}} \ {None}

Earliest(S) == CHOOSE m \in S : \A x \in S : ~Later(m, x)

Returned == pc = "once" /\ ~raised

\* C1: after normalize_sequential_dates returns, any two non-null values
\* inside the span from created_at to closed_at are in order: the earlier
\* position never holds the later date.
C1_SpanIsOrdered ==
    Returned =>
        \A m, n \in SpanPositions(arg) :
            (m < n /\ issue_list[m].v # None /\ issue_list[n].v # None)
                => ~Later(issue_list[m].v, issue_list[n].v)

\* Witness of C1: a row whose span of at least four entries held a date
\* later than one after it, normalized and returned.
C1_Witness ==
    /\ Returned
    /\ Cardinality(SpanPositions(arg)) >= 4
    /\ \E m, n \in SpanPositions(arg) :
           /\ m < n /\ n < IndexOf(arg, finish)
           /\ arg[m].v # None /\ arg[n].v # None
           /\ Later(arg[m].v, arg[n].v)

\* C2: normalize_sequential_dates is idempotent: applied to its own result,
\* it returns a row with the same keys, in the same order, with the same
\* values.
C2_Idempotent ==
    pc = "twice" => (~raised /\ issue_list = once)

\* Witness of C2: the second application has run on a row that the first
\* application changed.
C2_Witness ==
    pc = "twice" /\ once # arg /\ Len(DateFields(arg)) >= 3

\* C3 as stated: a row with created_at and no closed_at after it comes back
\* with every value unchanged.
C3_NoFinishRowUnchanged ==
    (pc = "once" /\ HasKey(arg, start) /\ ~FinishFollowsStart(arg))
        => issue_list = arg

\* created_at and closed_at are next to each other.
Adjacent(row) ==
    \E n \in 1..(Len(row) - 1) : row[n].k = start /\ row[n + 1].k = finish

\* C4 as stated: when created_at and closed_at are adjacent, no value is
\* modified.
C4_AdjacentNeverModified ==
    (pc = "once" /\ Adjacent(arg)) => issue_list = arg

\* C4 as amended: when created_at and closed_at are adjacent, the only value
\* that can change is created_at, and it becomes the closed_at date exactly
\* when both are non-null and created_at is the later one.
C4_AdjacentClampsStart ==
    (pc = "once" /\ Adjacent(arg)) =>
        LET c == GetItem(arg, start)
            e == GetItem(arg, finish)
        IN issue_list = IF c # None /\ e # None /\ Later(c, e)
                        THEN SetItem(arg, start, e)
                        ELSE arg

\* Witness of C4: an adjacent pair with created_at later than closed_at has
\* been normalized.
C4_Witness ==
    /\ pc = "once" /\ Adjacent(arg)
    /\ GetItem(arg, start) # None /\ GetItem(arg, finish) # None
    /\ Later(GetItem(arg, start), GetItem(arg, finish))

\* The row of the end-to-end example: created_at 2020-01-10, the approved
\* label 2020-01-05, closed_at 2020-01-20, the other two label dates null.
ExampleRow(row) ==
    /\ DateFields(row) = SubSeq(fields, 4, 8)
    /\ GetItem(row, start) = Date(10)
    /\ GetItem(row, approved) = Date(5)
    /\ GetItem(row, doing) = None
    /\ GetItem(row, needs_review) = None
    /\ GetItem(row, finish) = Date(20)

\* C5 as stated: on the example row, normalization sets the approved-label
\* date to 2020-01-10 and leaves closed_at at 2020-01-20.
C5_ExampleRaisesLabelDate ==
    (pc = "once" /\ ExampleRow(arg)) =>
        /\ GetItem(issue_list, approved) = Date(10)
        /\ GetItem(issue_list, finish) = Date(20)

\* C5 as amended: on the example row, normalization returns, sets created_at
\* to 2020-01-05, and leaves the approved-label date at 2020-01-05 and
\* closed_at at 2020-01-20 (and every other value as it was).
C5_ExampleLowersCreatedAt ==
    (pc = "once" /\ ExampleRow(arg)) =>
        /\ ~raised
        /\ issue_list = SetItem(arg, start, Date(5))
        /\ GetItem(issue_list, approved) = Date(5)
        /\ GetItem(issue_list, finish) = Date(20)

\* Witness of C5: the example row, with main's three leading columns, has
\* been normalized.
C5_Witness ==
    pc = "once" /\ ExampleRow(arg) /\ Keys(arg) = fields

\* C6 as stated: normalize_sequential_dates never raises.
C6_NeverRaises ==
    pc = "once" => ~raised

\* C7: a non-null value at a span position other than the last becomes the
\* earliest of itself and the non-null values after it in the span (so it is
\* unchanged when there is none); and no value of the row is ever increased.
C7_ForwardClamp ==
    pc = "once" =>
        /\ \A n \in SpanPositions(arg) :
               (n # IndexOf(arg, finish) /\ arg[n].v # None)
                   => issue_list[n].v = Earliest({arg[n].v} \cup LaterDates(arg, n))
        /\ Len(issue_list) = Len(arg)
        /\ \A n \in 1..Len(arg) :
               \/ issue_list[n].v = arg[n].v
               \/ /\ arg[n].v \in Dates /\ issue_list[n].v \in Dates
                  /\ Later(arg[n].v, issue_list[n].v)

\* Witness of C7: a span position took the date of a position that is not
\* the next non-null one, and another non-null position kept its date.
C7_Witness ==
    /\ pc = "once"
    /\ \E n \in SpanPositions(arg) :
           /\ arg[n].v # None
           /\ Cardinality(LaterDates(arg, n)) >= 2
           /\ issue_list[n].v # arg[n].v
           /\ issue_list[n].v # arg[n + 1].v
    /\ \E n \in SpanPositions(arg) :
           /\ n # IndexOf(arg, finish)
           /\ arg[n].v # None /\ issue_list[n].v = arg[n].v

\* C8 as stated: the keys and their order are kept, and a value changes only
\* at a position of the span from created_at to the closed_at after it,
\* before closed_at itself, where the value was not null.
C8_OnlySpanDatesChange ==
    pc = "once" =>
        /\ Keys(issue_list) = Keys(arg)
        /\ \A n \in 1..Len(arg) :
               issue_list[n].v # arg[n].v
                   => /\ n \in SpanPositions(arg)
                      /\ n # IndexOf(arg, finish)
                      /\ arg[n].v # None

\* C8 on the rows where closed_at does follow created_at.
C8_WithinEstablishedSpan ==
    FinishFollowsStart(arg) => C8_OnlySpanDatesChange

====
